---- MODULE Spec2Model ----
(***************************************************************************)
(* CachedObject of objexplore: the attribute browser node.  Two variants   *)
(* of the class exist in the repository, objex/cached_object.py (with the  *)
(* cursor movements) and objexplore/cached_object.py (with the guarded     *)
(* selection queries).  The heap of all CachedObject instances ever        *)
(* constructed is the sequence `nodes`; an instance is its index.          *)
(***************************************************************************)
EXTENDS Integers, Sequences, FiniteSets, TLC

VARIABLES variant, panel, nodes, pre, ret, trail

vars == <<variant, panel, nodes, pre, ret, trail>>

\* ---------------------------------------------------------------- bounds
MaxHeight == 1
MaxNodes == 4

Heights == 0..MaxHeight

\* ------------------------------------------------ module-level constants
PUBLIC == "PUBLIC"
PRIVATE == "PRIVATE"

\* Attribute names are strings: sequences of code points.
UNDERSCORE == 95
WEAKREF == <<95, 95, 119, 101, 97, 107, 114, 101, 102, 95, 95>>

\* ------------------------------------------ the live objects (the input)
\* dir(obj) and getattr(obj, attr) of a small object graph.  O1 has three
\* public members, no private member and a weak-reference slot; O2 has two
\* private members and one public and refers to itself; so does O3.
N_a == <<97>>
N_b == <<98>>
N_c == <<99>>
N_x == <<120>>
N_p == <<95, 112>>
N_q == <<95, 113>>
N_d == <<95, 100>>

Objects == {"O1", "O2", "O3"}

Dir(obj) ==
    CASE obj = "O1" -> <<WEAKREF, N_a, N_b, N_c>>
      [] obj = "O2" -> <<N_p, N_q, N_x>>
      [] obj = "O3" -> <<N_d, N_x>>

Getattr(obj, attr) ==
    CASE obj = "O1" /\ attr = N_a -> "O3"
      [] obj = "O1" /\ attr = N_b -> "O3"
      [] obj = "O1" /\ attr = N_c -> "O3"
      [] obj = "O2" /\ attr = N_p -> "O3"
      [] obj = "O2" /\ attr = N_q -> "O3"
      [] obj = "O2" /\ attr = N_x -> "O2"
      [] obj = "O3" /\ attr = N_d -> "O3"
      [] obj = "O3" /\ attr = N_x -> "O3"

\* inspect.getsource(obj): O1 is an instance of a class written in python
\* ("pass"), the other two are built-in values, for which it raises.
SourceAvailable(obj) == obj = "O1"

GetSourceText(obj) == <<112, 97, 115, 115>>

\* The members that are properties whose getter may raise when fetched.
MayRaise(obj, attr) ==
    \/ obj = "O1" /\ attr = N_b
    \/ obj = "O2" /\ attr \in {N_p, N_q}

\* ------------------------------------------------------ python built-ins
\* str.startswith('_')
StartsWithUnderscore(attr) == Len(attr) >= 1 /\ attr[1] = UNDERSCORE

\* str < str: lexicographic by code point, a proper prefix is smaller
RECURSIVE StrLess(_, _)
StrLess(s, t) ==
    IF t = <<>> THEN FALSE
    ELSE IF s = <<>> THEN TRUE
    ELSE IF Head(s) < Head(t) THEN TRUE
    ELSE IF Head(s) > Head(t) THEN FALSE
    ELSE StrLess(Tail(s), Tail(t))

\* insertion of one element into a sorted list, after its equals (stable)
RECURSIVE InsertSorted(_, _)
InsertSorted(x, list) ==
    IF list = <<>> THEN <<x>>
    ELSE IF StrLess(x, Head(list)) THEN <<x>> \o list
    ELSE <<Head(list)>> \o InsertSorted(x, Tail(list))

\* sorted(iterable)
RECURSIVE SortedFrom(_, _)
SortedFrom(list, acc) ==
    IF list = <<>> THEN acc
    ELSE SortedFrom(Tail(list), InsertSorted(Head(list), acc))

Sorted(list) == SortedFrom(list, <<>>)

\* list.remove(x): drops the first occurrence
RECURSIVE ListRemove(_, _)
ListRemove(list, x) ==
    IF list = <<>> THEN <<>>
    ELSE IF Head(list) = x THEN Tail(list)
    ELSE <<Head(list)>> \o ListRemove(Tail(list), x)

ListContains(list, x) == \E i \in 1..Len(list) : list[i] = x

\* list[i] with python's negative indices; [ok |-> FALSE] is IndexError
ListIndex(list, i) ==
    IF i >= 0 /\ i < Len(list) THEN [ok |-> TRUE, item |-> list[i + 1]]
    ELSE IF i < 0 /\ i >= 0 - Len(list)
         THEN [ok |-> TRUE, item |-> list[Len(list) + i + 1]]
    ELSE [ok |-> FALSE, item |-> <<>>]

PyMax(a, b) == IF a >= b THEN a ELSE b

\* ---------------------------------------------------------- constructor
\* the attribute list with the '__weakref__' entry left in
PlainAttrs_keeps_weakref(obj) == Dir(obj)

\* self.attrs / self.plain_attrs: dir(obj) without '__weakref__'
PlainAttrs(obj) ==
    IF ListContains(Dir(obj), WEAKREF) THEN ListRemove(Dir(obj), WEAKREF)
    ELSE Dir(obj)

PublicAttributes(attrs) ==
    Sorted(SelectSeq(attrs, LAMBDA attr : ~StartsWithUnderscore(attr)))

PrivateAttributes(attrs) ==
    Sorted(SelectSeq(attrs, LAMBDA attr : StartsWithUnderscore(attr)))

EmptyDict == [k \in {} |-> 0]

\* None, for a field that holds a string otherwise (objex starts every node
\* with _source = None; its lazy source property is not among the
\* operations below)
NoSource == [none |-> TRUE, text |-> <<>>]

\* "[red italic]Source code unavailable"
SOURCE_UNAVAILABLE ==
    <<91, 114, 101, 100, 32, 105, 116, 97, 108, 105, 99, 93, 83, 111,
       117, 114, 99, 101, 32, 99, 111, 100, 101, 32, 117, 110, 97, 118,
       97, 105, 108, 97, 98, 108, 101>>

\* try: inspect.getsource(self.obj) / except Exception: None
InitSource(obj) ==
    IF SourceAvailable(obj) THEN [none |-> FALSE, text |-> GetSourceText(obj)]
    ELSE NoSource

CachedObject(obj, dotpath) ==
    [ obj |-> obj,
      dotpath |-> dotpath,
      attribute_type |-> PUBLIC,
      public_attribute_index |-> 0,
      private_attribute_index |-> 0,
      public_attribute_window |-> 0,
      private_attribute_window |-> 0,
      plain_attrs |-> PlainAttrs(obj),
      plain_public_attributes |-> PublicAttributes(PlainAttrs(obj)),
      plain_private_attributes |-> PrivateAttributes(PlainAttrs(obj)),
      cached_attributes |-> EmptyDict,
      _source |-> IF variant = "objexplore" THEN InitSource(obj) ELSE NoSource ]

\* ---------------------------------------------------- cursor movements
\* Variants of the operations below with one plausible slip each.
\* move_up that leaves the window where it is
move_up_keeps_window(self) ==
    IF self.attribute_type = PUBLIC
    THEN IF self.public_attribute_index > 0
         THEN [self EXCEPT !.public_attribute_index = @ - 1]
         ELSE self
    ELSE IF self.private_attribute_index > 0
         THEN [self EXCEPT !.private_attribute_index = @ - 1]
         ELSE self

\* move_down that never advances the window
move_down_never_scrolls(self, panel_height) ==
    IF self.attribute_type = PUBLIC
    THEN IF self.public_attribute_index < Len(self.plain_public_attributes) - 1
         THEN [self EXCEPT !.public_attribute_index = @ + 1]
         ELSE self
    ELSE IF self.private_attribute_index < Len(self.plain_private_attributes) - 1
         THEN [self EXCEPT !.private_attribute_index = @ + 1]
         ELSE self

\* move_down that advances the window one row early (>= for >)
move_down_scrolls_early(self, panel_height) ==
    IF self.attribute_type = PUBLIC
    THEN IF self.public_attribute_index < Len(self.plain_public_attributes) - 1
         THEN [self EXCEPT
                 !.public_attribute_index = @ + 1,
                 !.public_attribute_window =
                     IF self.public_attribute_index + 1 >= @ + panel_height
                     THEN @ + 1 ELSE @]
         ELSE self
    ELSE IF self.private_attribute_index < Len(self.plain_private_attributes) - 1
         THEN [self EXCEPT
                 !.private_attribute_index = @ + 1,
                 !.private_attribute_window =
                     IF self.private_attribute_index + 1 >= @ + panel_height
                     THEN @ + 1 ELSE @]
         ELSE self

\* move_down with the window test after the index test, not inside it
move_down_window_test_apart(self, panel_height) ==
    IF self.attribute_type = PUBLIC
    THEN LET index == IF self.public_attribute_index
                            < Len(self.plain_public_attributes) - 1
                      THEN self.public_attribute_index + 1
                      ELSE self.public_attribute_index
         IN  [self EXCEPT
                !.public_attribute_index = index,
                !.public_attribute_window =
                    IF index > @ + panel_height THEN @ + 1 ELSE @]
    ELSE LET index == IF self.private_attribute_index
                            < Len(self.plain_private_attributes) - 1
                      THEN self.private_attribute_index + 1
                      ELSE self.private_attribute_index
         IN  [self EXCEPT
                !.private_attribute_index = index,
                !.private_attribute_window =
                    IF index > @ + panel_height THEN @ + 1 ELSE @]

\* move_down that advances the window one row late
move_down_scrolls_late(self, panel_height) ==
    IF self.attribute_type = PUBLIC
    THEN IF self.public_attribute_index < Len(self.plain_public_attributes) - 1
         THEN [self EXCEPT
                 !.public_attribute_index = @ + 1,
                 !.public_attribute_window =
                     IF self.public_attribute_index + 1 > @ + panel_height + 1
                     THEN @ + 1 ELSE @]
         ELSE self
    ELSE IF self.private_attribute_index < Len(self.plain_private_attributes) - 1
         THEN [self EXCEPT
                 !.private_attribute_index = @ + 1,
                 !.private_attribute_window =
                     IF self.private_attribute_index + 1 > @ + panel_height + 1
                     THEN @ + 1 ELSE @]
         ELSE self

\* move_bottom that leaves the window where it is
move_bottom_keeps_window(self, panel_height) ==
    IF self.attribute_type = PUBLIC
    THEN [self EXCEPT
            !.public_attribute_index = Len(self.plain_public_attributes) - 1]
    ELSE [self EXCEPT
            !.private_attribute_index = Len(self.plain_private_attributes) - 1]

\* move_top that rewinds both lists
move_top_rewinds_both(self) ==
    [self EXCEPT !.public_attribute_index = 0,
                 !.public_attribute_window = 0,
                 !.private_attribute_index = 0,
                 !.private_attribute_window = 0]

\* move_bottom without the max(0, ...)
move_bottom_unclamped(self, panel_height) ==
    IF self.attribute_type = PUBLIC
    THEN [self EXCEPT
            !.public_attribute_index = Len(self.plain_public_attributes) - 1,
            !.public_attribute_window =
                Len(self.plain_public_attributes) - 1 - panel_height]
    ELSE [self EXCEPT
            !.private_attribute_index = Len(self.plain_private_attributes) - 1,
            !.private_attribute_window =
                Len(self.plain_private_attributes) - 1 - panel_height]

\* a category toggle that also rewinds the list it leaves
switch_category_rewinds(self, category) ==
    [self EXCEPT !.attribute_type = category,
                 !.public_attribute_index = 0,
                 !.public_attribute_window = 0]

\* (objex/cached_object.py; panel_height is the caller's window height)
move_down(self, panel_height) ==
    IF self.attribute_type = PUBLIC
    THEN IF self.public_attribute_index < Len(self.plain_public_attributes) - 1
         THEN LET index == self.public_attribute_index + 1
              IN  [self EXCEPT
                     !.public_attribute_index = index,
                     !.public_attribute_window =
                         IF index > self.public_attribute_window + panel_height
                         THEN self.public_attribute_window + 1
                         ELSE self.public_attribute_window]
         ELSE self
    ELSE IF self.attribute_type = PRIVATE
    THEN IF self.private_attribute_index < Len(self.plain_private_attributes) - 1
         THEN LET index == self.private_attribute_index + 1
              IN  [self EXCEPT
                     !.private_attribute_index = index,
                     !.private_attribute_window =
                         IF index > self.private_attribute_window + panel_height
                         THEN self.private_attribute_window + 1
                         ELSE self.private_attribute_window]
         ELSE self
    ELSE self

move_up(self) ==
    IF self.attribute_type = PUBLIC
    THEN IF self.public_attribute_index > 0
         THEN LET index == self.public_attribute_index - 1
              IN  [self EXCEPT
                     !.public_attribute_index = index,
                     !.public_attribute_window =
                         IF index < self.public_attribute_window
                         THEN self.public_attribute_window - 1
                         ELSE self.public_attribute_window]
         ELSE self
    ELSE IF self.attribute_type = PRIVATE
    THEN IF self.private_attribute_index > 0
         THEN LET index == self.private_attribute_index - 1
              IN  [self EXCEPT
                     !.private_attribute_index = index,
                     !.private_attribute_window =
                         IF index < self.private_attribute_window
                         THEN self.private_attribute_window - 1
                         ELSE self.private_attribute_window]
         ELSE self
    ELSE self

move_top(self) ==
    IF self.attribute_type = PUBLIC
    THEN [self EXCEPT !.public_attribute_index = 0,
                      !.public_attribute_window = 0]
    ELSE IF self.attribute_type = PRIVATE
    THEN [self EXCEPT !.private_attribute_index = 0,
                      !.private_attribute_window = 0]
    ELSE self

move_bottom(self, panel_height) ==
    IF self.attribute_type = PUBLIC
    THEN LET index == Len(self.plain_public_attributes) - 1
         IN  [self EXCEPT !.public_attribute_index = index,
                          !.public_attribute_window = PyMax(0, index - panel_height)]
    ELSE IF self.attribute_type = PRIVATE
    THEN LET index == Len(self.plain_private_attributes) - 1
         IN  [self EXCEPT !.private_attribute_index = index,
                          !.private_attribute_window = PyMax(0, index - panel_height)]
    ELSE self

\* The browser's category toggle assigns the attribute_type field.
switch_category(self, category) == [self EXCEPT !.attribute_type = category]

\* ------------------------------------------------------- call outcomes
NoneValue == [kind |-> "None", name |-> <<>>, node |-> 0]
StrValue(s) == [kind |-> "str", name |-> s, node |-> 0]
NodeValue(id) == [kind |-> "CachedObject", name |-> <<>>, node |-> id]

Return(value) == [outcome |-> "ok", value |-> value]
Raise(exception) == [outcome |-> exception, value |-> NoneValue]

SyntaxValue(text) == [kind |-> "Syntax", name |-> text, node |-> 0]
SyntaxLineRangeValue(text) == [kind |-> "SyntaxLineRange", name |-> text, node |-> 0]

\* bool(value) of an Optional[str]
Truthy(value) == value.kind = "str" /\ value.name # <<>>

\* ---------------------------------------------------- selection queries
selected_public_attribute_objex(self) ==
    LET item == ListIndex(self.plain_public_attributes, self.public_attribute_index)
    IN  IF item.ok THEN Return(StrValue(item.item)) ELSE Raise("IndexError")

selected_private_attribute_objex(self) ==
    LET item == ListIndex(self.plain_private_attributes, self.private_attribute_index)
    IN  IF item.ok THEN Return(StrValue(item.item)) ELSE Raise("IndexError")

selected_public_attribute_objexplore(self) ==
    IF self.plain_public_attributes # <<>>
    THEN LET item == ListIndex(self.plain_public_attributes,
                               self.public_attribute_index)
         IN  IF item.ok THEN Return(StrValue(item.item)) ELSE Raise("IndexError")
    ELSE Return(NoneValue)

selected_private_attribute_objexplore(self) ==
    IF self.plain_private_attributes # <<>>
    THEN LET item == ListIndex(self.plain_private_attributes,
                               self.private_attribute_index)
         IN  IF item.ok THEN Return(StrValue(item.item)) ELSE Raise("IndexError")
    ELSE Return(NoneValue)

\* self[key]
getitem(self, key) ==
    IF key \in DOMAIN self.cached_attributes
    THEN Return(NodeValue(self.cached_attributes[key]))
    ELSE Raise("KeyError")

selected_cached_attribute_objex(self) ==
    IF self.attribute_type = PUBLIC
    THEN LET sel == selected_public_attribute_objex(self)
         IN  IF sel.outcome = "ok" THEN getitem(self, sel.value.name) ELSE sel
    ELSE IF self.attribute_type = PRIVATE
    THEN LET sel == selected_private_attribute_objex(self)
         IN  IF sel.outcome = "ok" THEN getitem(self, sel.value.name) ELSE sel
    ELSE Return(NoneValue)

selected_cached_attribute_objexplore(self) ==
    LET pub == selected_public_attribute_objexplore(self)
        priv == selected_private_attribute_objexplore(self)
    IN  IF self.attribute_type = PUBLIC /\ pub.outcome # "ok" THEN pub
        ELSE IF self.attribute_type = PUBLIC /\ Truthy(pub.value)
        THEN getitem(self, pub.value.name)
        ELSE IF self.attribute_type = PRIVATE /\ priv.outcome # "ok" THEN priv
        ELSE IF self.attribute_type = PRIVATE /\ Truthy(priv.value)
        THEN getitem(self, priv.value.name)
        ELSE Return(NoneValue)

selected_public_attribute(v, self) ==
    IF v = "objex" THEN selected_public_attribute_objex(self)
    ELSE selected_public_attribute_objexplore(self)

selected_private_attribute(v, self) ==
    IF v = "objex" THEN selected_private_attribute_objex(self)
    ELSE selected_private_attribute_objexplore(self)

selected_cached_attribute(v, self) ==
    IF v = "objex" THEN selected_cached_attribute_objex(self)
    ELSE selected_cached_attribute_objexplore(self)

\* ------------------------------------------------------------ get_source
\* get_source that looks for a missing source only in the truncated mode
get_source_fullscreen_first(self, fullscreen) ==
    IF fullscreen THEN Return(SyntaxValue(self._source.text))
    ELSE IF self._source.none \/ self._source.text = <<>>
    THEN Return(StrValue(SOURCE_UNAVAILABLE))
    ELSE Return(SyntaxLineRangeValue(self._source.text))

\* (objexplore/cached_object.py)
get_source(self, fullscreen) ==
    IF self._source.none \/ self._source.text = <<>>
    THEN Return(StrValue(SOURCE_UNAVAILABLE))
    ELSE IF fullscreen THEN Return(SyntaxValue(self._source.text))
    ELSE Return(SyntaxLineRangeValue(self._source.text))

\* ------------------------------------------------------ cache_attributes
\* a loop that also makes, for every child, the child of its first attribute
RECURSIVE CacheLoop_one_level_more(_, _, _, _)
CacheLoop_one_level_more(heap, id, i, failAt) ==
    LET self == heap[id]
    IN  IF i > Len(self.plain_attrs) \/ i = failAt THEN heap
        ELSE LET attr == self.plain_attrs[i]
                 child == CachedObject(Getattr(self.obj, attr),
                                       Append(self.dotpath, attr))
                 first == child.plain_attrs[1]
                 grandchild == CachedObject(Getattr(child.obj, first),
                                            Append(child.dotpath, first))
                 grown == heap \o
                     <<[child EXCEPT !.cached_attributes = (first :> Len(heap) + 2)],
                       grandchild>>
             IN  CacheLoop_one_level_more(
                   [grown EXCEPT ![id].cached_attributes =
                        (attr :> Len(heap) + 1) @@ self.cached_attributes],
                   id, i + 1, failAt)

\* a loop that makes the child of the first attribute only
CacheLoop_first_only(heap, id, i, failAt) ==
    LET self == heap[id]
    IN  IF i > Len(self.plain_attrs) \/ i = failAt \/ i > 1 THEN heap
        ELSE LET attr == self.plain_attrs[i]
                 grown == Append(heap, CachedObject(Getattr(self.obj, attr),
                                                    Append(self.dotpath, attr)))
             IN  [grown EXCEPT ![id].cached_attributes =
                      (attr :> Len(grown)) @@ self.cached_attributes]

\* The for loop over the attribute list, from position i on.  getattr of the
\* attribute at position failAt raises (0: no getattr raises); the exception
\* leaves the loop with the entries made so far.
RECURSIVE CacheLoop(_, _, _, _)
CacheLoop(heap, id, i, failAt) ==
    LET self == heap[id]
    IN  IF i > Len(self.plain_attrs) \/ i = failAt THEN heap
        ELSE LET attr == self.plain_attrs[i]
                 child == CachedObject(Getattr(self.obj, attr),
                                       Append(self.dotpath, attr))
                 grown == Append(heap, child)
             IN  CacheLoop(
                   [grown EXCEPT ![id].cached_attributes =
                        (attr :> Len(grown)) @@ self.cached_attributes],
                   id, i + 1, failAt)

\* not self.cached_attributes
DictIsEmpty(dict) == DOMAIN dict = {}

\* cache_attributes that constructs the children anew, in place, when the
\* node has them already
cache_attributes_rebuilds(heap, id, failAt) ==
    IF DictIsEmpty(heap[id].cached_attributes)
    THEN CacheLoop(heap, id, 1, failAt)
    ELSE [n \in 1..Len(heap) |->
            IF \E key \in DOMAIN heap[id].cached_attributes :
                   heap[id].cached_attributes[key] = n
            THEN CachedObject(heap[n].obj, heap[n].dotpath)
            ELSE heap[n]]

\* cache_attributes without the guard: every call runs the loop again
cache_attributes_unguarded(heap, id, failAt) == CacheLoop(heap, id, 1, failAt)

cache_attributes(heap, id, failAt) ==
    IF DictIsEmpty(heap[id].cached_attributes)
    THEN CacheLoop(heap, id, 1, failAt)
    ELSE heap

\* whether that call raises: the loop ran and reached the failing getattr
cache_attributes_raises(heap, id, failAt) ==
    /\ DictIsEmpty(heap[id].cached_attributes)
    /\ failAt \in 1..Len(heap[id].plain_attrs)

\* ------------------------------------------------------------ the state
\* variant: which of the two files the class is taken from.
\* panel:   the panel height the caller passes to every move_down and
\*          move_bottom, when it keeps to one; AnyHeight when it does not.
\* nodes:   every CachedObject constructed so far; nodes[1] is the root.
\* pre:     the heap as it was when the last call was made.
\* ret:     the last call made on a node and how it ended.
\* trail:   the active (cursor, window) pair before the last move_down, kept
\*          while that move_down is the last call or is followed by one
\*          move_up on the same node.
Call(name, id, h, key, result) ==
    [call |-> name, self |-> id, arg |-> h, key |-> key,
     outcome |-> result.outcome, value |-> result.value]

NoCall == Call("new", 1, 0, <<>>, Return(NoneValue))

NoTrail == [stage |-> "none", cursor |-> 0, window |-> 0, h |-> 0]

Ids == 1..Len(nodes)

ActiveList(self) ==
    IF self.attribute_type = PUBLIC THEN self.plain_public_attributes
    ELSE self.plain_private_attributes

ActiveIndex(self) ==
    IF self.attribute_type = PUBLIC THEN self.public_attribute_index
    ELSE self.private_attribute_index

ActiveWindow(self) ==
    IF self.attribute_type = PUBLIC THEN self.public_attribute_window
    ELSE self.private_attribute_window

AnyHeight == -1

InitRoot ==
    /\ variant \in {"objex", "objexplore"}
    /\ \E obj \in Objects : nodes = <<CachedObject(obj, <<>>)>>
    /\ pre = nodes
    /\ ret = NoCall
    /\ trail = NoTrail

Init == InitRoot /\ panel = AnyHeight

\* the caller passes the same panel height at every call
FixedInit == InitRoot /\ panel \in Heights

MoveDown(id, h) ==
    /\ variant = "objex"
    /\ panel = AnyHeight \/ h = panel
    /\ nodes' = [nodes EXCEPT ![id] = move_down(nodes[id], h)]
    /\ ret' = Call("move_down", id, h, <<>>, Return(NoneValue))
    /\ trail' = [stage |-> "down", cursor |-> ActiveIndex(nodes[id]),
                 window |-> ActiveWindow(nodes[id]), h |-> h]
    /\ pre' = nodes
    /\ UNCHANGED <<variant, panel>>

MoveUp(id) ==
    /\ variant = "objex"
    /\ nodes' = [nodes EXCEPT ![id] = move_up(nodes[id])]
    /\ ret' = Call("move_up", id, 0, <<>>, Return(NoneValue))
    /\ trail' = IF trail.stage = "down" /\ ret.self = id
                THEN [trail EXCEPT !.stage = "downup"]
                ELSE NoTrail
    /\ pre' = nodes
    /\ UNCHANGED <<variant, panel>>

MoveTop(id) ==
    /\ variant = "objex"
    /\ nodes' = [nodes EXCEPT ![id] = move_top(nodes[id])]
    /\ ret' = Call("move_top", id, 0, <<>>, Return(NoneValue))
    /\ trail' = NoTrail
    /\ pre' = nodes
    /\ UNCHANGED <<variant, panel>>

MoveBottom(id, h) ==
    /\ variant = "objex"
    /\ panel = AnyHeight \/ h = panel
    /\ nodes' = [nodes EXCEPT ![id] = move_bottom(nodes[id], h)]
    /\ ret' = Call("move_bottom", id, h, <<>>, Return(NoneValue))
    /\ trail' = NoTrail
    /\ pre' = nodes
    /\ UNCHANGED <<variant, panel>>

SwitchCategory(id, category) ==
    /\ nodes' = [nodes EXCEPT ![id] = switch_category(nodes[id], category)]
    /\ ret' = Call("switch_category", id, 0, <<>>, Return(NoneValue))
    /\ trail' = NoTrail
    /\ pre' = nodes
    /\ UNCHANGED <<variant, panel>>

SelectedPublicAttribute(id) ==
    /\ ret' = Call("selected_public_attribute", id, 0, <<>>,
                   selected_public_attribute(variant, nodes[id]))
    /\ trail' = NoTrail
    /\ pre' = nodes
    /\ UNCHANGED <<variant, panel, nodes>>

SelectedPrivateAttribute(id) ==
    /\ ret' = Call("selected_private_attribute", id, 0, <<>>,
                   selected_private_attribute(variant, nodes[id]))
    /\ trail' = NoTrail
    /\ pre' = nodes
    /\ UNCHANGED <<variant, panel, nodes>>

SelectedCachedAttribute(id) ==
    /\ ret' = Call("selected_cached_attribute", id, 0, <<>>,
                   selected_cached_attribute(variant, nodes[id]))
    /\ trail' = NoTrail
    /\ pre' = nodes
    /\ UNCHANGED <<variant, panel, nodes>>

\* the call's arg is 1 for fullscreen=True, 0 for fullscreen=False
GetSource(id, fullscreen) ==
    /\ variant = "objexplore"
    /\ ret' = Call("get_source", id, IF fullscreen THEN 1 ELSE 0, <<>>,
                   get_source(nodes[id], fullscreen))
    /\ trail' = NoTrail
    /\ pre' = nodes
    /\ UNCHANGED <<variant, panel, nodes>>

GetItem(id, key) ==
    /\ ret' = Call("getitem", id, 0, key, getitem(nodes[id], key))
    /\ trail' = NoTrail
    /\ pre' = nodes
    /\ UNCHANGED <<variant, panel, nodes>>

\* failAt: the position in the attribute list of the first attribute whose
\* getattr raises during this call, 0 when none does.
FailPositions(self) ==
    {0} \cup {i \in 1..Len(self.plain_attrs) :
                 MayRaise(self.obj, self.plain_attrs[i])}

CacheAttributes(id, failAt) ==
    /\ Len(cache_attributes(nodes, id, failAt)) <= MaxNodes
    /\ nodes' = cache_attributes(nodes, id, failAt)
    /\ ret' = Call("cache_attributes", id, failAt, <<>>,
                   IF cache_attributes_raises(nodes, id, failAt)
                   THEN Raise("GetattrError") ELSE Return(NoneValue))
    /\ trail' = NoTrail
    /\ pre' = nodes
    /\ UNCHANGED <<variant, panel>>

Next ==
    \/ \E id \in Ids, h \in Heights : MoveDown(id, h)
    \/ \E id \in Ids : MoveUp(id)
    \/ \E id \in Ids : MoveTop(id)
    \/ \E id \in Ids, h \in Heights : MoveBottom(id, h)
    \/ \E id \in Ids, category \in {PUBLIC, PRIVATE} : SwitchCategory(id, category)
    \/ \E id \in Ids : SelectedPublicAttribute(id)
    \/ \E id \in Ids : SelectedPrivateAttribute(id)
    \/ \E id \in Ids : SelectedCachedAttribute(id)
    \/ \E id \in Ids, fullscreen \in BOOLEAN : GetSource(id, fullscreen)
    \/ \E id \in Ids : \E i \in 1..Len(nodes[id].plain_attrs) :
          GetItem(id, nodes[id].plain_attrs[i])
    \/ \E id \in Ids : \E failAt \in FailPositions(nodes[id]) :
          CacheAttributes(id, failAt)

Spec == Init /\ [][Next]_vars

FixedSpec == FixedInit /\ [][Next]_vars

\* =================================================================
\* Properties
\* =================================================================
Moves == {"move_down", "move_up", "move_top", "move_bottom"}

\* the node the last call was made on, after and before that call
Self == nodes[ret.self]
PreSelf == pre[ret.self]

InRange(list, index, window) ==
    0 <= window /\ window <= index /\ index <= Len(list) - 1

\* C1: in every reachable state, for every node and each category whose name
\* list is non-empty, 0 <= window <= index <= len(list) - 1, whatever
\* heights the movements were called with.
C1_CursorInRange ==
    \A id \in Ids :
        /\ nodes[id].plain_public_attributes # <<>> =>
               InRange(nodes[id].plain_public_attributes,
                       nodes[id].public_attribute_index,
                       nodes[id].public_attribute_window)
        /\ nodes[id].plain_private_attributes # <<>> =>
               InRange(nodes[id].plain_private_attributes,
                       nodes[id].private_attribute_index,
                       nodes[id].private_attribute_window)

\* a movement has scrolled a list down to its last row
C1_Witness ==
    /\ ret.call \in Moves
    /\ Len(ActiveList(Self)) >= 3
    /\ ActiveIndex(Self) = Len(ActiveList(Self)) - 1
    /\ ActiveWindow(Self) = ActiveIndex(Self)

\* C2: a child node is constructed at most once per parent and member name
\* (no two nodes of the heap have the same path from the root), an entry of
\* cached_attributes never changes once made, and self[key] returns the
\* node of that entry, so two lookups of a name return the same node.
C2_ExpandIdempotent ==
    /\ \A i \in Ids, j \in Ids : nodes[i].dotpath = nodes[j].dotpath => i = j
    /\ Len(pre) <= Len(nodes)
    /\ \A id \in 1..Len(pre) :
          /\ nodes[id].obj = pre[id].obj
          /\ nodes[id].dotpath = pre[id].dotpath
          /\ \A key \in DOMAIN pre[id].cached_attributes :
                /\ key \in DOMAIN nodes[id].cached_attributes
                /\ nodes[id].cached_attributes[key] = pre[id].cached_attributes[key]
    /\ (ret.call = "getitem" /\ ret.outcome = "ok") =>
          /\ ret.value.kind = "CachedObject"
          /\ ret.key \in DOMAIN PreSelf.cached_attributes
          /\ ret.value.node = PreSelf.cached_attributes[ret.key]
          /\ nodes[ret.value.node].dotpath = Append(Self.dotpath, ret.key)

\* cache_attributes was called again on a node that has its children
C2_Witness ==
    /\ ret.call = "cache_attributes"
    /\ ret.outcome = "ok"
    /\ DOMAIN PreSelf.cached_attributes # {}
    /\ DOMAIN Self.cached_attributes = DOMAIN PreSelf.cached_attributes

\* the last two calls were move_down(h) then move_up() on one node, the
\* first from a position that is neither the first nor the last row
DownUpFromInside ==
    /\ trail.stage = "downup"
    /\ 0 < trail.cursor
    /\ trail.cursor < Len(ActiveList(Self)) - 1

\* move_down(h) advanced the window
DownScrolled == trail.cursor + 1 > trail.window + trail.h

\* C3 as stated: move_down(h) followed by move_up() from a non-boundary
\* position restores the (index, window) pair of the active category.
C3_DownUpRestoresPair ==
    DownUpFromInside =>
        /\ ActiveIndex(Self) = trail.cursor
        /\ ActiveWindow(Self) = trail.window

\* C3 amended: move_down(h) followed by move_up() from a non-boundary
\* position restores the index; it restores the window unless move_down
\* advanced the window while the index was below the first visible row
\* (index > window), and then the window ends one greater than it was.
C3_DownUpRestoresIndex ==
    DownUpFromInside =>
        /\ ActiveIndex(Self) = trail.cursor
        /\ ActiveWindow(Self) =
              IF DownScrolled /\ trail.cursor > trail.window
              THEN trail.window + 1
              ELSE trail.window

\* the pair was not restored: the window stayed one row further down
C3_Witness ==
    /\ DownUpFromInside
    /\ ActiveIndex(Self) = trail.cursor
    /\ ActiveWindow(Self) = trail.window + 1

\* C4: the four movements are no-ops when the active list is empty: the
\* node (indices, windows, category, children), and the rest of the heap,
\* are as before the call, and the call does not raise.
C4_MovesNoOpOnEmptyList ==
    (ret.call \in Moves /\ ActiveList(PreSelf) = <<>>) =>
        /\ nodes = pre
        /\ ret.outcome = "ok"

\* C5: with an empty active list the selected-name query returns None and
\* does not raise, and selected_cached_attribute returns None.
C5_EmptySelectionIsAbsent ==
    /\ (ret.call = "selected_public_attribute"
           /\ Self.plain_public_attributes = <<>>) =>
          (ret.outcome = "ok" /\ ret.value = NoneValue)
    /\ (ret.call = "selected_private_attribute"
           /\ Self.plain_private_attributes = <<>>) =>
          (ret.outcome = "ok" /\ ret.value = NoneValue)
    /\ (ret.call = "selected_cached_attribute" /\ ActiveList(Self) = <<>>) =>
          (ret.outcome = "ok" /\ ret.value = NoneValue)

\* C6: when a getattr raises during cache_attributes the call raises and
\* the heap is as before it: no entry was added to cached_attributes, no
\* index, window or category changed.
C6_FailedExpandLeavesNode ==
    (ret.call = "cache_attributes" /\ ret.outcome # "ok") => nodes = pre

\* C7: fetch failures are not cached: a cache_attributes call during which
\* no getattr raises leaves every member name with a child node that
\* self[name] returns, also when an earlier call on the node has failed.
C7_FailureNotCached ==
    (ret.call = "cache_attributes" /\ ret.arg = 0) =>
        \A i \in 1..Len(Self.plain_attrs) :
            getitem(Self, Self.plain_attrs[i]).outcome = "ok"

\* C8: a category switch changes the attribute_type of the node it is
\* made on and nothing else: both (index, window) pairs and
\* cached_attributes of that node and all other nodes are as before.
C8_SwitchChangesOnlyCategory ==
    ret.call = "switch_category" =>
        /\ Len(nodes) = Len(pre)
        /\ \A id \in Ids :
              IF id = ret.self
              THEN nodes[id] =
                     [pre[id] EXCEPT !.attribute_type = nodes[id].attribute_type]
              ELSE nodes[id] = pre[id]

\* a switch to PRIVATE was made on a node whose public cursor had moved
C8_Witness ==
    /\ ret.call = "switch_category"
    /\ PreSelf.attribute_type = PUBLIC
    /\ Self.attribute_type = PRIVATE
    /\ Self.public_attribute_index > 0
    /\ Self.public_attribute_window > 0

\* C9: move_top leaves the active category at index 0, window 0;
\* move_bottom(h) leaves it at index len - 1, window max(0, len - 1 - h).
C9_TopAndBottom ==
    /\ ret.call = "move_top" =>
          (ActiveIndex(Self) = 0 /\ ActiveWindow(Self) = 0)
    /\ ret.call = "move_bottom" =>
          /\ ActiveIndex(Self) = Len(ActiveList(Self)) - 1
          /\ ActiveWindow(Self) =
                IF Len(ActiveList(Self)) - 1 - ret.arg > 0
                THEN Len(ActiveList(Self)) - 1 - ret.arg
                ELSE 0

\* move_bottom moved the cursor of a three-row list and scrolled
C9_Witness ==
    /\ ret.call = "move_bottom"
    /\ ActiveIndex(PreSelf) = 0
    /\ ActiveIndex(Self) = 2
    /\ ActiveWindow(Self) = 1
    /\ ret.arg = 1

\* C10: move_down(h) with the index not on the last row adds one to the
\* index, and adds one to the window exactly when the new index is greater
\* than the old window + h; on a three-row list with h = 1 it goes from
\* (0, 0) to (1, 0) and from (1, 0) to (2, 1).
C10_MoveDownStep ==
    (ret.call = "move_down"
        /\ ActiveIndex(PreSelf) < Len(ActiveList(PreSelf)) - 1) =>
        /\ ActiveIndex(Self) = ActiveIndex(PreSelf) + 1
        /\ (ActiveWindow(Self) = ActiveWindow(PreSelf) + 1
              <=> ActiveIndex(Self) > ActiveWindow(PreSelf) + ret.arg)
        /\ (ActiveWindow(Self) = ActiveWindow(PreSelf)
              <=> ~(ActiveIndex(Self) > ActiveWindow(PreSelf) + ret.arg))
        /\ (ret.arg = 1 /\ Len(ActiveList(PreSelf)) = 3
              /\ ActiveIndex(PreSelf) = 0 /\ ActiveWindow(PreSelf) = 0) =>
              (ActiveIndex(Self) = 1 /\ ActiveWindow(Self) = 0)
        /\ (ret.arg = 1 /\ Len(ActiveList(PreSelf)) = 3
              /\ ActiveIndex(PreSelf) = 1 /\ ActiveWindow(PreSelf) = 0) =>
              (ActiveIndex(Self) = 2 /\ ActiveWindow(Self) = 1)

\* the second move_down of the scenario: (1, 0) to (2, 1) with h = 1
C10_Witness ==
    /\ ret.call = "move_down"
    /\ ret.arg = 1
    /\ Len(ActiveList(PreSelf)) = 3
    /\ ActiveIndex(PreSelf) = 1 /\ ActiveWindow(PreSelf) = 0
    /\ ActiveIndex(Self) = 2 /\ ActiveWindow(Self) = 1

NameSet(list) == {list[i] : i \in 1..Len(list)}

Ascending(list) ==
    \A i \in 1..Len(list), j \in 1..Len(list) :
        i < j => StrLess(list[i], list[j])

\* C11: for every node the public and the private name list are disjoint,
\* each ascending, together exactly the names dir() lists for the object
\* without '__weakref__'; the public names are those that do not start
\* with an underscore; and no call changes either list of a node.
C11_NameLists ==
    /\ \A id \in Ids :
          LET public == nodes[id].plain_public_attributes
              private == nodes[id].plain_private_attributes
              listed == NameSet(Dir(nodes[id].obj))
          IN  /\ NameSet(public) \cap NameSet(private) = {}
              /\ Ascending(public)
              /\ Ascending(private)
              /\ NameSet(public) \cup NameSet(private) = listed \ {WEAKREF}
              /\ NameSet(public) =
                    {name \in listed \ {WEAKREF} : name = <<>> \/ name[1] # 95}
              /\ Len(public) + Len(private) = Cardinality(listed \ {WEAKREF})
    /\ \A id \in 1..Len(pre) :
          /\ id \in Ids
          /\ nodes[id].plain_public_attributes = pre[id].plain_public_attributes
          /\ nodes[id].plain_private_attributes = pre[id].plain_private_attributes

\* a node of an object that lists '__weakref__' has been moved on, switched
\* and expanded
C11_Witness ==
    /\ ret.call = "cache_attributes"
    /\ Len(nodes) > Len(pre)
    /\ ListContains(Dir(Self.obj), WEAKREF)
    /\ Self.attribute_type = PRIVATE
    /\ Self.public_attribute_index > 0

\* C12: a node of an object whose source inspect.getsource cannot give is
\* constructed without an error, with no source; get_source on it returns
\* the "Source code unavailable" string with fullscreen and without, and
\* does not raise.
C12_SourceUnavailable ==
    /\ \A id \in Ids :
          (variant = "objexplore" /\ ~SourceAvailable(nodes[id].obj)) =>
              nodes[id]._source.none
    /\ (ret.call = "get_source" /\ ~SourceAvailable(Self.obj)) =>
          /\ ret.outcome = "ok"
          /\ ret.value.kind = "str"
          /\ ret.value.name = SOURCE_UNAVAILABLE

\* the fullscreen source of a child node of a built-in value was asked for
C12_Witness ==
    /\ ret.call = "get_source"
    /\ ret.arg = 1
    /\ ret.self > 1
    /\ ~SourceAvailable(Self.obj)

\* the number of children a cache_attributes call makes on an empty dict:
\* those of the attributes before the first whose getattr raises
Fetched(self, failAt) ==
    IF failAt = 0 THEN Len(self.plain_attrs) ELSE failAt - 1

C14_SelectedChildIsThere ==
    (ret.call = "selected_cached_attribute" /\ ActiveList(Self) # <<>>) =>
        /\ ret.outcome = "ok"
        /\ ret.value.kind = "CachedObject"
        /\ ret.value.node \in Ids
        /\ nodes[ret.value.node].obj =
              Getattr(Self.obj, ActiveList(Self)[ActiveIndex(Self) + 1])
        /\ nodes[ret.value.node].dotpath =
              Append(Self.dotpath, ActiveList(Self)[ActiveIndex(Self) + 1])

\* a node as __init__ leaves it
IsFresh(self) ==
    /\ self.attribute_type = PUBLIC
    /\ self.public_attribute_index = 0
    /\ self.private_attribute_index = 0
    /\ self.public_attribute_window = 0
    /\ self.private_attribute_window = 0
    /\ DOMAIN self.cached_attributes = {}

\* the nodes the last call constructed
NewIds == (Len(pre) + 1)..Len(nodes)

\* C15: a node starts with the PUBLIC category, both indices and windows
\* 0 and no children, and its construction makes no other node: the root
\* is alone after construction, and a cache_attributes call, the only call
\* that makes nodes, makes at most one node per member of the node it is
\* called on, each directly below that node and each without children,
\* also when a member's value is the object itself.
C15_FreshNodes ==
    /\ ret.call = "new" => (Len(nodes) = 1 /\ IsFresh(nodes[1]))
    /\ NewIds # {} => ret.call = "cache_attributes"
    /\ Len(nodes) - Len(pre) <= Len(PreSelf.plain_attrs)
    /\ \A id \in NewIds :
          /\ IsFresh(nodes[id])
          /\ \E i \in 1..Len(Self.plain_attrs) :
                LET attr == Self.plain_attrs[i]
                IN  /\ nodes[id].dotpath = Append(Self.dotpath, attr)
                    /\ nodes[id].obj = Getattr(Self.obj, attr)
                    /\ attr \in DOMAIN Self.cached_attributes
                    /\ Self.cached_attributes[attr] = id

\* an expansion of a node with a member whose value is the node's own object
C15_Witness ==
    /\ ret.call = "cache_attributes"
    /\ Len(nodes) >= Len(pre) + 2
    /\ \E id \in NewIds : nodes[id].obj = Self.obj

\* C16: a movement changes at most the index and the window of the active
\* category of the node it is called on: that node's other pair, category,
\* name lists and children, and every other node of the heap (its parent
\* and its children among them), are as before the call.
C16_MoveChangesActivePairOnly ==
    ret.call \in Moves =>
        /\ Len(nodes) = Len(pre)
        /\ \A id \in Ids : id # ret.self => nodes[id] = pre[id]
        /\ Self.attribute_type = PreSelf.attribute_type
        /\ IF PreSelf.attribute_type = PUBLIC
           THEN Self = [PreSelf EXCEPT
                          !.public_attribute_index = Self.public_attribute_index,
                          !.public_attribute_window = Self.public_attribute_window]
           ELSE Self = [PreSelf EXCEPT
                          !.private_attribute_index = Self.private_attribute_index,
                          !.private_attribute_window = Self.private_attribute_window]

\* a movement changed the public pair of a node whose private index had
\* been moved before and one of whose children had been switched
C16_Witness ==
    /\ ret.call \in Moves
    /\ Self.attribute_type = PUBLIC
    /\ Self # PreSelf
    /\ Self.private_attribute_index # 0
    /\ \E key \in DOMAIN Self.cached_attributes :
          nodes[Self.cached_attributes[key]].attribute_type = PRIVATE

\* the navigation state of a node
Navigation(self) ==
    <<self.attribute_type,
      self.public_attribute_index, self.public_attribute_window,
      self.private_attribute_index, self.private_attribute_window>>

\* C17: expanding a node again and looking a child up again give the node
\* that was made the first time, with the category, indices and windows
\* it was left with: cache_attributes, self[key] and
\* selected_cached_attribute change the navigation state of no node, and
\* the node they return for a name that has an entry is that entry's node.
C17_ChildKeepsNavigation ==
    ret.call \in {"cache_attributes", "getitem", "selected_cached_attribute"} =>
        /\ \A id \in 1..Len(pre) :
              /\ id \in Ids
              /\ Navigation(nodes[id]) = Navigation(pre[id])
        /\ \A key \in DOMAIN PreSelf.cached_attributes :
              /\ key \in DOMAIN Self.cached_attributes
              /\ Self.cached_attributes[key] = PreSelf.cached_attributes[key]
        /\ (ret.call = "getitem" /\ ret.key \in DOMAIN PreSelf.cached_attributes) =>
              /\ ret.outcome = "ok"
              /\ ret.value.node = PreSelf.cached_attributes[ret.key]
              /\ nodes[ret.value.node] = pre[ret.value.node]

\* a child that had been switched to PRIVATE and moved down was looked up
\* again from its parent
C17_Witness ==
    /\ ret.call = "getitem"
    /\ ret.outcome = "ok"
    /\ nodes[ret.value.node].attribute_type = PRIVATE
    /\ nodes[ret.value.node].private_attribute_index > 0
    /\ nodes[ret.value.node].private_attribute_window > 0

\* C18: move_down(h) with the index on the last row changes nothing, for
\* every h, also when index > window + h; move_up with the index on row 0
\* changes nothing.
C18_StepsStopAtBoundaries ==
    /\ (ret.call = "move_down" /\ ActiveList(PreSelf) # <<>>
           /\ ActiveIndex(PreSelf) = Len(ActiveList(PreSelf)) - 1) =>
          nodes = pre
    /\ (ret.call = "move_up" /\ ActiveList(PreSelf) # <<>>
           /\ ActiveIndex(PreSelf) = 0) =>
          nodes = pre

\* move_down(h) was called on the last row while index > window + h
C18_Witness ==
    /\ ret.call = "move_down"
    /\ Len(ActiveList(PreSelf)) >= 3
    /\ ActiveIndex(PreSelf) = Len(ActiveList(PreSelf)) - 1
    /\ ActiveIndex(PreSelf) > ActiveWindow(PreSelf) + ret.arg
    /\ nodes = pre

\* C19: when every move_down and move_bottom of a run is given the same
\* panel height h >= 0, in every reachable state and for each category
\* whose list is not empty, index - window <= h: the selected row is never
\* more than h rows below the first visible row.
C19_CursorWithinPanel ==
    \A id \in Ids :
        /\ nodes[id].plain_public_attributes # <<>> =>
              nodes[id].public_attribute_index
                  - nodes[id].public_attribute_window <= panel
        /\ nodes[id].plain_private_attributes # <<>> =>
              nodes[id].private_attribute_index
                  - nodes[id].private_attribute_window <= panel

\* a move_down(h) or move_bottom(h) left the selected row exactly h rows
\* below the first visible row of a scrolled window
C19_Witness ==
    /\ panel # AnyHeight
    /\ ret.call \in {"move_down", "move_bottom"}
    /\ ActiveList(Self) # <<>>
    /\ Self # PreSelf
    /\ ActiveWindow(Self) > 0
    /\ ActiveIndex(Self) - ActiveWindow(Self) = panel

\* the active (index, window) pair of a node
ActivePair(self) == <<ActiveIndex(self), ActiveWindow(self)>>

\* move_down(h) repeated until the index stops changing
RECURSIVE RepeatDown(_, _)
RepeatDown(self, panel_height) ==
    LET next == move_down(self, panel_height)
    IN  IF ActiveIndex(next) = ActiveIndex(self) THEN next
        ELSE RepeatDown(next, panel_height)

\* move_up() repeated until the index stops changing
RECURSIVE RepeatUp(_)
RepeatUp(self) ==
    LET next == move_up(self)
    IN  IF ActiveIndex(next) = ActiveIndex(self) THEN next
        ELSE RepeatUp(next)

\* C20: with one panel height h for the whole run and a non-empty active
\* list, move_bottom(h) gives the (index, window) pair that repeating
\* move_down(h) until the index stops changing gives, and move_top() gives
\* the pair that repeating move_up() until the index stops changing gives.
C20_JumpsEqualRepeatedSteps ==
    /\ (ret.call = "move_bottom" /\ ActiveList(PreSelf) # <<>>) =>
          ActivePair(Self) = ActivePair(RepeatDown(PreSelf, panel))
    /\ (ret.call = "move_top" /\ ActiveList(PreSelf) # <<>>) =>
          ActivePair(Self) = ActivePair(RepeatUp(PreSelf))

\* move_bottom(h) was called two rows above the last row of a list and
\* left a scrolled window
C20_Witness ==
    /\ panel # AnyHeight
    /\ ret.call = "move_bottom"
    /\ ret.arg = panel
    /\ ActiveIndex(PreSelf) + 2 = ActiveIndex(Self)
    /\ ActiveWindow(Self) > ActiveWindow(PreSelf)

====
